---------------------------- MODULE Spec2Model ----------------------------
(***************************************************************************)
(* A model of binocle (src/src/main.rs): the byte-to-pixel mapping of      *)
(* Binocle::draw, the colour schemes it dispatches to, and the start-up    *)
(* and event-loop code of main that calls it.                              *)
(*                                                                         *)
(* Scaling.  The program draws a 1024 x 1024 canvas with 64-bit usize      *)
(* arithmetic.  The model keeps the code's arithmetic and its order of     *)
(* operations, on a canvas of WIDTH x HEIGHT pixels and a usize of         *)
(* UsizeBits bits, so that every case of the loop body (column past the    *)
(* row, index past the buffer, index inside the buffer, index computation  *)
(* overflowing usize) is reached by a small number of settings.            *)
(***************************************************************************)
EXTENDS Integers, Sequences, FiniteSets, TLC

VARIABLES
    pc,               \* position of main: start, pixels, load, idle, prepare, render, ...
    build,            \* "debug" (overflow checks on) or "release" (wrapping arithmetic)
    buffer,           \* Binocle.buffer, the bytes of the file
    settings,         \* the BinocleSettings value owned by main
    frame,            \* the pixel frame handed to draw, one RGBA colour per pixel
    redrawRequested,  \* a RedrawRequested event is pending
    drawnWith,        \* history: the settings the last call of draw was given
    drawn,            \* history: draw has been called
    loadFailed,       \* history: read_binary returned an error
    frame2,           \* a second frame, for calling draw twice on the same inputs
    done2,            \* the second frame has been drawn
    byte,             \* input of a colour scheme applied on its own
    applied,          \* the scheme that was applied to byte, or "none"
    color             \* its result

vars == <<pc, build, buffer, settings, frame, redrawRequested, drawnWith, drawn,
          loadFailed, frame2, done2, byte, applied, color>>

---------------------------------------------------------------------------
(* Bounds of the model *)

\* canvas width in pixels (const WIDTH, scaled down)
WIDTH == 4
\* canvas height in pixels (const HEIGHT, scaled down)
HEIGHT == 2
\* width of usize in bits (scaled down)
UsizeBits == 5
\* largest zoom the control panel is given
MaxZoom == 2
\* largest in-canvas row width the control panel is given
MaxRowWidth == 3
\* the stride, other than 1, the control panel is given
MaxStride == 2
\* the fine offset, other than 0, the control panel is given
MaxOffsetFine == 1
\* an offset past the end of every file of the model
BigOffset == 10

UsizeModulus == 2 ^ UsizeBits
UsizeMax == UsizeModulus - 1

Pixels == 0 .. (WIDTH * HEIGHT - 1)

Bytes == 0 .. 255

\* The files the program is started on.
Files == { << >>,
           <<0, 65, 32, 255>>,
           <<0, 1, 2, 3, 4, 5>> }

PixelStyles == {"Category", "Colorful", "Grayscale", "GradientMagma",
                "GradientPlasma", "GradientViridis", "GradientRainbow"}

Builds == {"debug", "release"}

---------------------------------------------------------------------------
(* Colour schemes *)

Transparent == <<0, 0, 0, 0>>

grayscale(b) == <<b, b, b, 255>>

\* u8::overflowing_mul: the wrapped product and whether it overflowed
overflowing_mul(b, k) == <<(b * k) % 256, b * k > 255>>

\* a slip: saturating instead of wrapping multiplication
colorful_saturating(b) ==
    <<b, IF b * 2 > 255 THEN 255 ELSE b * 2, IF b * 4 > 255 THEN 255 ELSE b * 4, 255>>

colorful(b) == <<b, overflowing_mul(b, 2)[1], overflowing_mul(b, 4)[1], 255>>

\* u8::is_ascii_graphic: U+0021 '!' ..= U+007E '~'
is_ascii_graphic(b) == b >= 33 /\ b <= 126

\* u8::is_ascii_whitespace: space, tab, line feed, form feed, carriage return
is_ascii_whitespace(b) == b \in {32, 9, 10, 12, 13}

\* u8::is_ascii
is_ascii(b) == b <= 127

\* a slip: the is_ascii branch tested before the whitespace branch
category_ascii_first(b) ==
    IF b = 0 THEN <<0, 0, 0, 255>>
    ELSE IF is_ascii_graphic(b) THEN <<60, 255, 96, 255>>
    ELSE IF is_ascii(b) THEN <<60, 178, 255, 255>>
    ELSE IF is_ascii_whitespace(b) THEN <<240, 240, 240, 255>>
    ELSE <<249, 53, 94, 255>>

category(b) ==
    IF b = 0 THEN <<0, 0, 0, 255>>
    ELSE IF is_ascii_graphic(b) THEN <<60, 255, 96, 255>>
    ELSE IF is_ascii_whitespace(b) THEN <<240, 240, 240, 255>>
    ELSE IF is_ascii(b) THEN <<60, 178, 255, 255>>
    ELSE <<249, 53, 94, 255>>

\* colorgrad's Gradient::at(b / 255), channels in thousandths: a continuous
\* path between the gradient's two end colours.
GradientEnds(g) ==
    CASE g = "GradientMagma"   -> << <<1, 0, 14>>, <<987, 991, 750>> >>
      [] g = "GradientPlasma"  -> << <<50, 30, 528>>, <<940, 975, 131>> >>
      [] g = "GradientViridis" -> << <<267, 5, 329>>, <<993, 906, 144>> >>
      [] OTHER                 -> << <<431, 251, 667>>, <<431, 251, 667>> >>

GradientAt(g, b) ==
    [c \in 1 .. 3 |->
        (GradientEnds(g)[1][c] * (255 - b) + GradientEnds(g)[2][c] * b) \div 255]

\* the closure color_gradient returns: each channel is (channel * 255) truncated
color_gradient(g, b) ==
    <<(GradientAt(g, b)[1] * 255) \div 1000,
      (GradientAt(g, b)[2] * 255) \div 1000,
      (GradientAt(g, b)[3] * 255) \div 1000,
      255>>

\* the match on settings.pixel_style at the head of draw
Style(ps, b) ==
    CASE ps = "Category"  -> category(b)
      [] ps = "Colorful"  -> colorful(b)
      [] ps = "Grayscale" -> grayscale(b)
      [] OTHER            -> color_gradient(ps, b)

---------------------------------------------------------------------------
(* Binocle::draw *)

\* usize addition and multiplication: the wrapped result and whether it overflowed
UsizeAdd(a, b) == [value |-> (a + b) % UsizeModulus, overflow |-> a + b > UsizeMax]

UsizeMul(a, b) == [value |-> (a * b) % UsizeModulus, overflow |-> a * b > UsizeMax]

\* let x = ((i % WIDTH) as usize) / settings.zoom
PixelX(i, s) == (i % WIDTH) \div s.zoom

\* let y = ((i / WIDTH) as usize) / settings.zoom
PixelY(i, s) == (i \div WIDTH) \div s.zoom

\* a slip: the row-width test made inclusive
OutOfRowInclusive(x, s) == x >= s.width

\* if x > settings.width
OutOfRow(x, s) == x > s.width

\* a slip: rows laid out width + 1 cells apart
BufferIndexWideRows(s, x, y) ==
    LET base  == UsizeAdd(s.offset, s.offset_fine)
        row   == UsizeMul(y, (s.width + 1) % UsizeModulus)
        cell  == UsizeAdd(row.value, x)
        bytes == UsizeMul(cell.value, s.stride)
        index == UsizeAdd(base.value, bytes.value)
    IN  [value    |-> index.value,
         overflow |-> base.overflow \/ row.overflow \/ cell.overflow
                        \/ bytes.overflow \/ index.overflow]

\* settings.offset + settings.offset_fine + (y * settings.width + x) * settings.stride
\* in usize arithmetic, operation by operation
BufferIndex(s, x, y) ==
    LET base  == UsizeAdd(s.offset, s.offset_fine)
        row   == UsizeMul(y, s.width)
        cell  == UsizeAdd(row.value, x)
        bytes == UsizeMul(cell.value, s.stride)
        index == UsizeAdd(base.value, bytes.value)
    IN  [value    |-> index.value,
         overflow |-> base.overflow \/ row.overflow \/ cell.overflow
                        \/ bytes.overflow \/ index.overflow]

\* the colour the loop body computes for pixel i, when its arithmetic does not panic
PixelColor(buf, s, i) ==
    LET x == PixelX(i, s)
        y == PixelY(i, s)
    IN  IF OutOfRow(x, s)
        THEN Transparent
        ELSE LET index == BufferIndex(s, x, y).value
             IN  IF index >= Len(buf)
                 THEN Transparent
                 ELSE Style(s.pixel_style, buf[index + 1])

\* the loop body panics at pixel i: an overflow with overflow checks on
PixelPanics(s, i, bld) ==
    /\ bld = "debug"
    /\ ~OutOfRow(PixelX(i, s), s)
    /\ BufferIndex(s, PixelX(i, s), PixelY(i, s)).overflow

\* the first pixel at which the loop panics, WIDTH * HEIGHT when there is none
FirstPanic(s, bld) ==
    IF \E i \in Pixels : PixelPanics(s, i, bld)
    THEN CHOOSE i \in Pixels :
            /\ PixelPanics(s, i, bld)
            /\ \A j \in Pixels : PixelPanics(s, j, bld) => i <= j
    ELSE WIDTH * HEIGHT

\* a slip: a pixel past the row is skipped instead of cleared
draw_skipping(buf, fr, s, bld) ==
    LET stop == FirstPanic(s, bld)
    IN  [frame    |-> [i \in Pixels |->
                         IF i < stop /\ ~OutOfRow(PixelX(i, s), s)
                         THEN PixelColor(buf, s, i)
                         ELSE fr[i]],
         panicked |-> stop < WIDTH * HEIGHT]

\* Binocle::draw on frame fr: every pixel before the first panic is overwritten
draw(buf, fr, s, bld) ==
    LET stop == FirstPanic(s, bld)
    IN  [frame    |-> [i \in Pixels |->
                         IF i < stop THEN PixelColor(buf, s, i) ELSE fr[i]],
         panicked |-> stop < WIDTH * HEIGHT]

---------------------------------------------------------------------------
(* main *)

ZeroFrame == [i \in Pixels |-> Transparent]

StaleFrame == [i \in Pixels |-> <<i % 256, 7, 7, 7>>]

\* the BinocleSettings literal of main
InitialSettings(len) ==
    [zoom |-> 1, width |-> MaxRowWidth, offset |-> 0, offset_fine |-> 0,
     stride |-> 1, pixel_style |-> "Colorful",
     buffer_length |-> len, canvas_width |-> WIDTH]

\* the values the control panel can give each field
ZoomValues == 1 .. MaxZoom
WidthValues == 1 .. MaxRowWidth
OffsetValues == {0, BigOffset, UsizeMax}
OffsetFineValues == {0, MaxOffsetFine}
StrideValues == {1, MaxStride}

\* what one pass of the control panel can turn the settings into
GuiEdits(s) ==
    {s} \cup {[s EXCEPT !.zoom = v] : v \in ZoomValues}
        \cup {[s EXCEPT !.width = v] : v \in WidthValues}
        \cup {[s EXCEPT !.offset = v] : v \in OffsetValues}
        \cup {[s EXCEPT !.offset_fine = v] : v \in OffsetFineValues}
        \cup {[s EXCEPT !.stride = v] : v \in StrideValues}
        \cup {[s EXCEPT !.pixel_style = v] : v \in PixelStyles}

AllSettings ==
    [zoom : ZoomValues, width : WidthValues, offset : OffsetValues,
     offset_fine : OffsetFineValues, stride : StrideValues,
     pixel_style : PixelStyles, buffer_length : {0}, canvas_width : {WIDTH}]

Init ==
    /\ pc = "start"
    /\ build \in Builds
    /\ buffer = << >>
    /\ settings = InitialSettings(0)
    /\ frame = ZeroFrame
    /\ redrawRequested = FALSE
    /\ drawnWith = InitialSettings(0)
    /\ drawn = FALSE
    /\ loadFailed = FALSE
    /\ frame2 = ZeroFrame
    /\ done2 = FALSE
    /\ byte = 0
    /\ applied = "none"
    /\ color = Transparent

\* WindowBuilder ... .build(&event_loop).unwrap()
BuildWindow ==
    /\ pc = "start"
    /\ \/ pc' = "pixels" /\ redrawRequested' = TRUE
       \/ pc' = "window_panic" /\ redrawRequested' = FALSE
    /\ UNCHANGED <<build, buffer, settings, frame, drawnWith, drawn, loadFailed,
                   frame2, done2, byte, applied, color>>

\* Pixels::new(WIDTH, HEIGHT, surface_texture)?
NewPixels ==
    /\ pc = "pixels"
    /\ pc' \in {"load", "pixels_error"}
    /\ frame' = ZeroFrame
    /\ UNCHANGED <<build, buffer, settings, redrawRequested, drawnWith, drawn,
                   loadFailed, frame2, done2, byte, applied, color>>

\* Binocle::new succeeding, then the settings literal
LoadFile ==
    /\ pc = "load"
    /\ \E f \in Files :
          /\ buffer' = f
          /\ settings' = InitialSettings(Len(f))
          /\ drawnWith' = InitialSettings(Len(f))
    /\ pc' = "idle"
    /\ UNCHANGED <<build, frame, redrawRequested, drawn, loadFailed,
                   frame2, done2, byte, applied, color>>

\* a slip: an unreadable file treated as an empty one
LoadFailsToEmpty ==
    /\ pc = "load"
    /\ loadFailed' = TRUE
    /\ pc' = "idle"
    /\ UNCHANGED <<build, buffer, settings, frame, redrawRequested, drawnWith, drawn,
                   frame2, done2, byte, applied, color>>

\* read_binary returning Err, unwrapped in Binocle::new
LoadFails ==
    /\ pc = "load"
    /\ loadFailed' = TRUE
    /\ pc' = "load_panic"
    /\ UNCHANGED <<build, buffer, settings, frame, redrawRequested, drawnWith, drawn,
                   frame2, done2, byte, applied, color>>

\* a slip: draw folding the fine offset into the offset it was given
DrawNormalising ==
    /\ pc = "idle"
    /\ redrawRequested
    /\ LET result == draw(buffer, frame, settings, build)
       IN  /\ frame' = result.frame
           /\ pc' = IF result.panicked THEN "draw_panic" ELSE "prepare"
    /\ settings' = [settings EXCEPT
                      !.offset = UsizeAdd(settings.offset, settings.offset_fine).value,
                      !.offset_fine = 0]
    /\ drawnWith' = settings
    /\ drawn' = TRUE
    /\ redrawRequested' = FALSE
    /\ UNCHANGED <<build, buffer, loadFailed, frame2, done2, byte, applied, color>>

\* Event::RedrawRequested: binocle.draw(pixels.get_frame(), &settings)
Draw ==
    /\ pc = "idle"
    /\ redrawRequested
    /\ LET result == draw(buffer, frame, settings, build)
       IN  /\ frame' = result.frame
           /\ pc' = IF result.panicked THEN "draw_panic" ELSE "prepare"
    /\ drawnWith' = settings
    /\ drawn' = TRUE
    /\ redrawRequested' = FALSE
    /\ UNCHANGED <<build, buffer, settings, loadFailed, frame2, done2, byte, applied, color>>

\* gui.prepare(&window, &mut settings)
GuiPrepare ==
    /\ pc = "prepare"
    /\ settings' \in GuiEdits(settings)
    /\ pc' = "render"
    /\ UNCHANGED <<build, buffer, frame, redrawRequested, drawnWith, drawn, loadFailed,
                   frame2, done2, byte, applied, color>>

\* pixels.render_with(...): on an error the loop exits
Render ==
    /\ pc = "render"
    /\ pc' \in {"idle", "exit"}
    /\ UNCHANGED <<build, buffer, settings, frame, redrawRequested, drawnWith, drawn,
                   loadFailed, frame2, done2, byte, applied, color>>

\* input.update(&event): a close event exits, anything else is followed by
\* binocle.update() and window.request_redraw()
InputUpdate ==
    /\ pc = "idle"
    /\ \/ pc' = "exit" /\ UNCHANGED redrawRequested
       \/ pc' = "idle" /\ redrawRequested' = TRUE
    /\ UNCHANGED <<build, buffer, settings, frame, drawnWith, drawn, loadFailed,
                   frame2, done2, byte, applied, color>>

Next ==
    \/ BuildWindow
    \/ NewPixels
    \/ LoadFile
    \/ LoadFails
    \/ Draw
    \/ GuiPrepare
    \/ Render
    \/ InputUpdate

Spec == Init /\ [][Next]_vars


---------------------------------------------------------------------------
(* draw called twice on the same buffer, settings and canvas, over two     *)
(* frames that hold anything                                               *)

TwiceInit ==
    /\ pc = "twice"
    /\ build \in Builds
    /\ buffer \in Files
    /\ settings \in AllSettings
    /\ frame \in {ZeroFrame, StaleFrame}
    /\ frame2 \in {ZeroFrame, StaleFrame}
    /\ redrawRequested = FALSE
    /\ drawnWith = settings
    /\ drawn = FALSE
    /\ loadFailed = FALSE
    /\ done2 = FALSE
    /\ byte = 0
    /\ applied = "none"
    /\ color = Transparent

\* binocle.draw(frame, &settings), on the first frame
DrawFirst ==
    /\ pc = "twice"
    /\ LET result == draw(buffer, frame, settings, build)
       IN  /\ frame' = result.frame
           /\ pc' = IF result.panicked THEN "draw_panic" ELSE "twice"
    /\ drawn' = TRUE
    /\ UNCHANGED <<build, buffer, settings, redrawRequested, drawnWith, loadFailed,
                   frame2, done2, byte, applied, color>>

\* binocle.draw(frame2, &settings), on the second frame
DrawSecond ==
    /\ pc = "twice"
    /\ LET result == draw(buffer, frame2, settings, build)
       IN  /\ frame2' = result.frame
           /\ pc' = IF result.panicked THEN "draw_panic" ELSE "twice"
    /\ done2' = TRUE
    /\ UNCHANGED <<build, buffer, settings, frame, redrawRequested, drawnWith, drawn,
                   loadFailed, byte, applied, color>>

TwiceNext ==
    \/ DrawFirst
    \/ DrawSecond

SpecTwice == TwiceInit /\ [][TwiceNext]_vars

---------------------------------------------------------------------------
(* a colour scheme applied to one byte *)

SchemeInit ==
    /\ pc = "scheme"
    /\ build \in Builds
    /\ buffer = << >>
    /\ settings = InitialSettings(0)
    /\ frame = ZeroFrame
    /\ redrawRequested = FALSE
    /\ drawnWith = InitialSettings(0)
    /\ drawn = FALSE
    /\ loadFailed = FALSE
    /\ frame2 = ZeroFrame
    /\ done2 = FALSE
    /\ byte \in Bytes
    /\ applied = "none"
    /\ color = Transparent

ApplyScheme(ps) ==
    /\ pc = "scheme"
    /\ applied' = ps
    /\ color' = Style(ps, byte)
    /\ UNCHANGED <<pc, build, buffer, settings, frame, redrawRequested, drawnWith,
                   drawn, loadFailed, frame2, done2, byte>>

ApplyCategory == ApplyScheme("Category")

ApplyColorful == ApplyScheme("Colorful")

ApplyGrayscale == ApplyScheme("Grayscale")

ApplyGradient ==
    \E g \in PixelStyles \ {"Category", "Colorful", "Grayscale"} : ApplyScheme(g)

SchemeNext ==
    \/ ApplyCategory
    \/ ApplyColorful
    \/ ApplyGrayscale
    \/ ApplyGradient

SpecScheme == SchemeInit /\ [][SchemeNext]_vars

---------------------------------------------------------------------------
(* Properties *)

\* the frame is the result of a call of draw that returned
FrameDrawn == drawn /\ pc \in {"prepare", "render", "idle", "exit"}

\* offset + offset_fine + (y * row_width + x) * stride, as a number
ExactIndex(s, x, y) == s.offset + s.offset_fine + (y * s.width + x) * s.stride

\* the colour the mapping rule gives pixel i of a frame drawn from buf with s
RulePixel(buf, s, i) ==
    LET x == (i % WIDTH) \div s.zoom
        y == (i \div WIDTH) \div s.zoom
    IN  IF x > s.width THEN <<0, 0, 0, 0>>
        ELSE IF ExactIndex(s, x, y) >= Len(buf) THEN <<0, 0, 0, 0>>
        ELSE Style(s.pixel_style, buf[ExactIndex(s, x, y) + 1])

\* the colours the schemes can produce
SchemeColors == {Style(ps, b) : ps \in PixelStyles, b \in Bytes}

\* C1: every pixel i of a frame written by draw is (0,0,0,0) if its column
\* x = (i mod W) div zoom is greater than row_width or if its index
\* offset + offset_fine + (y*row_width + x)*stride is at or past the end of
\* the buffer, and is otherwise the scheme's colour of the byte at that index.
C1_PixelRule ==
    FrameDrawn => \A i \in Pixels : frame[i] = RulePixel(buffer, drawnWith, i)

\* C2: draw is total: with zoom, row_width, stride >= 1 and offsets >= 0 it
\* never fails, and every pixel it writes is a scheme colour or (0,0,0,0).
C2_DrawTotal ==
    /\ pc # "draw_panic"
    /\ FrameDrawn => \A i \in Pixels : frame[i] = Transparent \/ frame[i] \in SchemeColors

\* C3: the out-of-row test is strict: a pixel in column x = row_width is
\* coloured from the byte at its index when that index is inside the buffer,
\* and a pixel in a column x >= row_width + 1 is (0,0,0,0).
C3_StrictRowTest ==
    FrameDrawn =>
        \A i \in Pixels :
            LET s == drawnWith
                x == (i % WIDTH) \div s.zoom
                y == (i \div WIDTH) \div s.zoom
            IN  /\ (x = s.width /\ ExactIndex(s, x, y) < Len(buffer))
                      => frame[i] = Style(s.pixel_style, buffer[ExactIndex(s, x, y) + 1])
                /\ x >= s.width + 1 => frame[i] = <<0, 0, 0, 0>>

C3_Witness ==
    /\ FrameDrawn
    /\ \E i \in Pixels :
          /\ (i % WIDTH) \div drawnWith.zoom = drawnWith.width
          /\ ExactIndex(drawnWith, drawnWith.width, (i \div WIDTH) \div drawnWith.zoom)
                < Len(buffer)
          /\ frame[i][4] = 255
    /\ \E i \in Pixels :
          /\ (i % WIDTH) \div drawnWith.zoom > drawnWith.width
          /\ frame[i] = <<0, 0, 0, 0>>

\* C4: category(b) is black for b = 0x00, else green for 0x21..0x7E, else
\* near-white for the whitespace bytes 0x09 0x0A 0x0C 0x0D 0x20, else blue for
\* any other b < 0x80 (0x7F included), else red.
C4_Category ==
    (pc = "scheme" /\ applied = "Category") =>
        color = CASE byte = 0 -> <<0, 0, 0, 255>>
                  [] byte \in 33 .. 126 -> <<60, 255, 96, 255>>
                  [] byte \in {9, 10, 12, 13, 32} -> <<240, 240, 240, 255>>
                  [] byte \in (1 .. 127) \ ((33 .. 126) \cup {9, 10, 12, 13, 32})
                        -> <<60, 178, 255, 255>>
                  [] byte >= 128 -> <<249, 53, 94, 255>>

C4_Witness ==
    /\ pc = "scheme"
    /\ applied = "Category"
    /\ byte = 127
    /\ color = <<60, 178, 255, 255>>

\* C5: colorful(b) = (b, 2b mod 256, 4b mod 256, 255): the products wrap, so
\* b = 128 has green 0 and b = 64 has blue 0.
C5_Colorful ==
    (pc = "scheme" /\ applied = "Colorful") =>
        /\ color = <<byte, (2 * byte) % 256, (4 * byte) % 256, 255>>
        /\ byte = 128 => color[2] = 0
        /\ byte = 64 => color[3] = 0

C5_Witness ==
    /\ pc = "scheme"
    /\ applied = "Colorful"
    /\ byte = 128
    /\ color = <<128, 0, 0, 255>>

\* C6: two calls of draw with the same buffer, settings and canvas leave the
\* same frame, whatever the two frames held before.
C6_SameFrame ==
    (pc = "twice" /\ drawn /\ done2) => frame = frame2

C6_Witness ==
    /\ pc = "twice"
    /\ drawn
    /\ done2
    /\ \E i \in Pixels : frame2[i] = Transparent
    /\ \E i \in Pixels : frame2[i][4] = 255

\* C7: when the file cannot be read the process ends there: draw is never
\* called, no redraw is handled, and nothing further happens (no retry).
C7_FatalLoad ==
    /\ [](loadFailed => (pc = "load_panic" /\ ~drawn /\ frame = ZeroFrame))
    /\ [][~loadFailed]_vars

C7_Witness == loadFailed /\ pc = "load_panic"

\* C8: whenever offset + offset_fine >= the buffer's length, every pixel of
\* the frame written by draw is (0,0,0,0).
C8_PastTheEnd ==
    (FrameDrawn /\ drawnWith.offset + drawnWith.offset_fine >= Len(buffer))
        => \A i \in Pixels : frame[i] = <<0, 0, 0, 0>>

\* C9: draw changes neither the buffer nor the settings; the settings change
\* only in the control panel step that follows draw, and the buffer never
\* after the load; the frame that is rendered is the one drawn from the
\* settings held when draw started.
C9_SettingsBetweenFrames ==
    /\ [][/\ (pc = "idle" /\ pc' # "idle" /\ pc' # "exit")
                => (settings' = settings /\ buffer' = buffer /\ drawnWith' = settings)
          /\ settings' # settings => pc \in {"load", "prepare"}
          /\ buffer' # buffer => pc = "load"]_vars
    /\ [](pc = "render" => frame = draw(buffer, ZeroFrame, drawnWith, build).frame)

C9_Witness ==
    /\ pc = "render"
    /\ settings # drawnWith
    /\ \E i \in Pixels : frame[i][4] = 255

\* C10: for every row y, the pixel in the extra column x = row_width has the
\* colour of the pixel in column 0 of row y + 1 whenever both are on the canvas.
C10_FirstByteTwice ==
    FrameDrawn =>
        \A i, j \in Pixels :
            LET s == drawnWith
            IN  (/\ (i % WIDTH) \div s.zoom = s.width
                 /\ (j % WIDTH) \div s.zoom = 0
                 /\ (j \div WIDTH) \div s.zoom = (i \div WIDTH) \div s.zoom + 1)
                    => frame[i] = frame[j]

C10_Witness ==
    /\ FrameDrawn
    /\ \E i, j \in Pixels :
          /\ (i % WIDTH) \div drawnWith.zoom = drawnWith.width
          /\ (j % WIDTH) \div drawnWith.zoom = 0
          /\ (j \div WIDTH) \div drawnWith.zoom = (i \div WIDTH) \div drawnWith.zoom + 1
          /\ frame[i][4] = 255
          /\ frame[j] = frame[i]

=============================================================================
